---------------------------- MODULE Spec2Model ----------------------------
(***************************************************************************)
(* Model of the streaming request handler of the Bug-RCA backend           *)
(* (src/app.py) with its two collaborators (src/extract_comments.py,       *)
(* src/trans_summary.py).                                                  *)
(*                                                                         *)
(* A run is one POST /api/process-video request: the handler process_video *)
(* validates the body, looks the request_id up in the process-wide         *)
(* processed_requests_cache and returns either a 400 response, the         *)
(* two-record cached_generate stream, or the generate stream, which runs   *)
(* fetch_comments and translate_and_summarise one after the other, each on *)
(* a background thread polled by run_task.  Runs are handled concurrently  *)
(* (one request context per run) and share nothing but the cache.          *)
(*                                                                         *)
(* Two scenarios are followed.  In "one run" a single request is followed  *)
(* through every poll, page, batch and failure the bounds allow.  In       *)
(* "two runs" two requests are handled concurrently, every interleaving of *)
(* their request contexts and stage threads, each with the smallest        *)
(* environment: one page per video, calls to the language model succeed,   *)
(* join(1.0) returns only when the thread has ended.                       *)
(*                                                                         *)
(* The call of line 119 hands translate_and_summarise a keyword it does    *)
(* not declare, so under Spec the call raises before the body runs: the    *)
(* body of translate_and_summarise, lines 127-144 of generate and          *)
(* cached_generate are part of the steps below and are reached by no       *)
(* behaviour of Spec.  StageSpec follows the two collaborators called with *)
(* the keywords they declare; AsmSpec follows the result assembly.         *)
(*                                                                         *)
(* Strings of the request body are sequences of characters so that         *)
(* str.strip() is computed; comment texts are natural numbers (0 is a      *)
(* blank text, which fetch_comments drops); a translated text is the       *)
(* comment's number plus 1000.                                             *)
(***************************************************************************)
EXTENDS Integers, Sequences, FiniteSets, TLC

(***************************************************************************)
(* Bounds of the model.                                                    *)
(***************************************************************************)
\* join(1.0) time-outs one run_task invocation is followed through
MaxPolls == 1
\* pages the Comment Source serves for one video
MaxPages == 2
\* longest comment / translation list of the result-assembly specification
MaxLen == 37

(***************************************************************************)
(* Program constants.                                                      *)
(***************************************************************************)
\* comments[:20], translated_comments[:20]
SampleSize == 20
\* translate_comments: batch_size = 20
batch_size == 20
\* summarize_comments: chunk_size = 500
chunk_size == 500

\* the concurrent request contexts that are followed
Runs == {"r1", "r2"}

\* a key the request body does not hold: as a url, as a character string
Absent == "<absent>"
AbsentString == <<"<absent>">>
NoReq == [video_url |-> Absent, youtube_api_key |-> <<>>,
          groq_api_key |-> <<>>, request_id |-> <<>>]

(***************************************************************************)
(* str.strip(): leading and trailing whitespace removed.                   *)
(***************************************************************************)
Whitespace == {" "}

RECURSIVE lstrip(_)
lstrip(s) == IF s # <<>> /\ Head(s) \in Whitespace THEN lstrip(Tail(s)) ELSE s

RECURSIVE rstrip(_)
rstrip(s) == IF s # <<>> /\ s[Len(s)] \in Whitespace
             THEN rstrip(SubSeq(s, 1, Len(s) - 1)) ELSE s

strip(s) == rstrip(lstrip(s))

\* data.get(key, '')
get(data, key) == IF data[key] = AbsentString THEN <<>> ELSE data[key]

(***************************************************************************)
(* Request bodies: each field is absent or a string.                       *)
(***************************************************************************)
Urls == {"https://youtu.be/AAAAAAAAAAA", "https://youtu.be/BBBBBBBBBBB",
         "https://example.com/x"}

\* extract_video_id: the 11 characters after "v=" or "/", or None
extract_video_id(url) ==
    CASE url = "https://youtu.be/AAAAAAAAAAA" -> "AAAAAAAAAAA"
      [] url = "https://youtu.be/BBBBBBBBBBB" -> "BBBBBBBBBBB"
      [] OTHER -> "None"

KeyStrings == {<<" ">>, <<"k">>}
IdStrings == {<<" ">>, <<"a">>, <<"a", " ">>, <<"b">>}

RequestBodies(urls, ids) ==
    [url : urls \cup {Absent},
     youtube_api_key : KeyStrings \cup {AbsentString},
     groq_api_key : KeyStrings \cup {AbsentString},
     request_id : ids \cup {AbsentString}]

\* faulty variant of validate: the fields are tested without .strip()
validate_unstripped(data) ==
    IF data["url"] = Absent THEN "URL is required"
    ELSE IF get(data, "youtube_api_key") = <<>> \/ get(data, "groq_api_key") = <<>>
         THEN "Both YouTube and Groq API keys are required."
    ELSE IF get(data, "request_id") = <<>>
         THEN "request_id is required to prevent duplicate processing."
    ELSE "ok"

(***************************************************************************)
(* process_video, lines 40-53: the 400 response of a body, or "ok".        *)
(***************************************************************************)
validate(data) ==
    IF data["url"] = Absent THEN "URL is required"
    ELSE IF strip(get(data, "youtube_api_key")) = <<>>
            \/ strip(get(data, "groq_api_key")) = <<>>
         THEN "Both YouTube and Groq API keys are required."
    ELSE IF strip(get(data, "request_id")) = <<>>
         THEN "request_id is required to prevent duplicate processing."
    ELSE "ok"

\* the handler's locals video_url, youtube_api_key, groq_api_key, request_id
parse(data) ==
    [video_url |-> data["url"],
     youtube_api_key |-> strip(get(data, "youtube_api_key")),
     groq_api_key |-> strip(get(data, "groq_api_key")),
     request_id |-> strip(get(data, "request_id"))]

(***************************************************************************)
(* Stream records.  A data record is json.dumps of a dict with the keys    *)
(* status/message, error, or status/results; a keep-alive record is the    *)
(* comment line of 2048 spaces.                                            *)
(***************************************************************************)
NoMessage == [text |-> "", n |-> 0]
Message(text) == [text |-> text, n |-> 0]
NoResults == [extracted_count |-> -1, comments |-> <<>>,
              translated_comments |-> <<>>, summary |-> ""]

StatusRecord(status, message) ==
    [kind |-> "status", status |-> status, message |-> message,
     error |-> "", results |-> NoResults]
ErrorRecord(error) ==
    [kind |-> "error", status |-> "", message |-> NoMessage,
     error |-> error, results |-> NoResults]
CompleteRecord(results) ==
    [kind |-> "complete", status |-> "complete", message |-> NoMessage,
     error |-> "", results |-> results]
KeepAlive ==
    [kind |-> "keepalive", status |-> "", message |-> NoMessage,
     error |-> "", results |-> NoResults]

IsData(rec) == rec.kind # "keepalive"
IsTerminal(rec) == rec.kind \in {"complete", "error"}

(***************************************************************************)
(* State.                                                                  *)
(***************************************************************************)
VARIABLES
    processed_requests_cache, \* request_id -> final_results (module global)
    scenario,                 \* "one run" or "two runs" (fixed)
    environ,                  \* os.environ: the variables that hold a non-empty value
    pc,                       \* per run: position of the handler / generator
    response,                 \* per run: HTTP status and error body of the response
    req,                      \* per run: the handler's locals
    out,                      \* per run: the records written to the stream so far
    abort_event,              \* per run: "absent", "clear" or "set"
    abort_result,             \* per run: the dict abort_result
    msg_queue,                \* per run: the queue msg_queue
    thread,                   \* per run: the background thread t of run_task
    hist,                     \* per run: what the run has done (observation only)
    stored,                   \* per request_id: the values written to the cache, in order
    asm                       \* the result-assembly specification's input and output

vars == <<processed_requests_cache, scenario, environ, pc, response, req, out,
          abort_event, abort_result, msg_queue, thread, hist, stored, asm>>

NoResponse == [code |-> 0, error |-> ""]

\* message.content None, as an item of chunk_summaries
None == "None"

NoThread == [task |-> "none", tpc |-> "dead", acc |-> <<>>, i |-> 0,
             pages |-> 0, chunk_summaries |-> <<>>]

\* hist: lacks = the fields the request body lacked or held blank, sent_id =
\* the request_id sent (stripped), seen_before = an earlier request carried
\* it, retry = the stream of an earlier request that carried it had been read
\* to its end, hit = the cache held it at line 56, spawned = stage threads started,
\* invoked = collaborator bodies entered, enqueued = progress messages put on
\* the queue, mark = Len(out) when the current stage's thread was started,
\* timeouts = join(1.0) time-outs of the current stage, closed_at = where the
\* generator was when the client disconnected, closed_len = Len(out) then
NoHist == [lacks |-> {}, sent_id |-> <<>>, seen_before |-> FALSE,
           retry |-> FALSE, hit |-> FALSE,
           spawned |-> <<>>, invoked |-> {}, enqueued |-> <<>>, mark |-> 0,
           timeouts |-> 0, closed_at |-> "", closed_len |-> 0]

AsmIdle == [state |-> "idle", comments |-> <<>>, payload |-> << >>,
            results |-> NoResults]

RequestIds == {strip(s) : s \in IdStrings} \ {<<>>}

(***************************************************************************)
(* What each scenario lets the environment do.                             *)
(***************************************************************************)
Scenarios == {"one run", "two runs"}
\* the variables of the process environment the stages read
EnvironmentVariables == {"YOUTUBE_API_KEY"}
OneRun == scenario = "one run"
\* the request contexts that receive a request
Active == IF OneRun THEN {"r1"} ELSE Runs
\* join(1.0) time-outs followed per run_task invocation
PollLimit == IF OneRun THEN MaxPolls ELSE 0
\* pages fetched per video
PageLimit == IF OneRun THEN MaxPages ELSE 1
\* outcomes of one call to the language model (_call_groq): it answers with a
\* text, it answers with message.content None, or it raises
CallOutcomes == IF OneRun THEN {"text", "None", "raises"} ELSE {"text"}
\* The requests a run can receive.  The first run carries the first video, or
\* with one run a url that names no video, and the request_id "a"; with two
\* runs the urls are urls of videos (the runs, the videos and the request_ids
\* are interchangeable).
UrlsSent(r) ==
    IF r = "r1"
    THEN {u \in Urls : extract_video_id(u) = "AAAAAAAAAAA"
                          \/ (OneRun /\ extract_video_id(u) = "None")}
    ELSE {u \in Urls : extract_video_id(u) # "None"}
IdsSent(r) ==
    IF r # "r1" THEN IdStrings
    ELSE {s \in IdStrings : strip(s) \in {<<>>, <<"a">>}}

Init ==
    /\ processed_requests_cache = << >>
    /\ scenario \in Scenarios
    /\ environ \in SUBSET EnvironmentVariables
    /\ pc = [r \in Runs |-> "idle"]
    /\ response = [r \in Runs |-> NoResponse]
    /\ req = [r \in Runs |-> NoReq]
    /\ out = [r \in Runs |-> <<>>]
    /\ abort_event = [r \in Runs |-> "absent"]
    /\ abort_result = [r \in Runs |-> << >>]
    /\ msg_queue = [r \in Runs |-> <<>>]
    /\ thread = [r \in Runs |-> NoThread]
    /\ hist = [r \in Runs |-> NoHist]
    /\ stored = [k \in RequestIds |-> <<>>]
    /\ asm = AsmIdle

\* the request_ids of the valid requests process_video has been handed so far
SeenIds == {hist[q].sent_id : q \in {q \in Runs : response[q].code = 200}}

\* the request_ids of the requests whose stream has been read to its end
CompletedIds == {hist[q].sent_id : q \in {q \in Runs : pc[q] = "done"}}

\* the fields a request body lacks or holds blank
Blank(s) == s = AbsentString \/ \A i \in 1..Len(s) : s[i] \in Whitespace
Lacks(data) ==
    {f \in {"youtube_api_key", "groq_api_key", "request_id"} : Blank(data[f])}
    \cup (IF data["url"] = Absent THEN {"url"} ELSE {})

\* process_video, lines 56-67 and 156: the generator of the 200 response
Route(request_id) ==
    IF request_id \in DOMAIN processed_requests_cache
    THEN "cached_begin" ELSE "begin"

(***************************************************************************)
(* process_video, lines 39-67 and 156-160: validation, the cache lookup    *)
(* and the choice of the response.  The generator of a 200 response is     *)
(* created here and not yet started.                                       *)
(***************************************************************************)
process_video(r, data) ==
    /\ r \in Active
    /\ pc[r] = "idle"
    /\ LET why == validate(data)
           l == parse(data)
           seen == [hist EXCEPT ![r].lacks = Lacks(data),
                                ![r].sent_id = l.request_id,
                                ![r].seen_before = l.request_id \in SeenIds]
       IN IF why # "ok"
          THEN /\ pc' = [pc EXCEPT ![r] = "rejected"]
               /\ response' = [response EXCEPT ![r] = [code |-> 400, error |-> why]]
               /\ hist' = seen
               /\ UNCHANGED req
          ELSE /\ response' = [response EXCEPT ![r] = [code |-> 200, error |-> ""]]
               /\ req' = [req EXCEPT ![r] = l]
               /\ hist' = [seen EXCEPT
                      ![r].retry = l.request_id \in CompletedIds,
                      ![r].hit = l.request_id \in DOMAIN processed_requests_cache]
               /\ pc' = [pc EXCEPT ![r] = Route(l.request_id)]
    /\ UNCHANGED out
    /\ UNCHANGED <<processed_requests_cache, scenario, environ, abort_event,
                   abort_result, msg_queue, thread, stored, asm>>

Emit(r, rec) == out' = [out EXCEPT ![r] = Append(@, rec)]

(***************************************************************************)
(* cached_generate, lines 58-60.                                           *)
(***************************************************************************)
cached_generate(r) ==
    /\ \/ /\ pc[r] = "cached_begin"
          /\ Emit(r, StatusRecord("extracting", Message("Loading from cache...")))
          /\ pc' = [pc EXCEPT ![r] = "cached_L59"]
       \/ /\ pc[r] = "cached_L59"
          /\ Emit(r, CompleteRecord(processed_requests_cache[req[r].request_id]))
          /\ pc' = [pc EXCEPT ![r] = "cached_L60"]
       \/ /\ pc[r] = "cached_L60"
          /\ pc' = [pc EXCEPT ![r] = "done"]
          /\ UNCHANGED out
    /\ UNCHANGED <<processed_requests_cache, scenario, environ, response, req,
                   abort_event, abort_result, msg_queue, thread, hist, stored, asm>>

(***************************************************************************)
(* Dicts and slices.                                                       *)
(***************************************************************************)
\* d[k] = v
Put(d, k, v) == [x \in DOMAIN d \cup {k} |-> IF x = k THEN v ELSE d[x]]

\* s[:n]
Take(s, n) == SubSeq(s, 1, IF Len(s) < n THEN Len(s) ELSE n)

\* s[i:i+n], i counted from 0
Slice(s, i, n) == SubSeq(s, i + 1, IF Len(s) < i + n THEN Len(s) ELSE i + n)

(***************************************************************************)
(* generate, lines 127-138: the final_results of a run.                    *)
(***************************************************************************)
extracted_translated_sample(translated_comments) ==
    IF translated_comments # <<>> THEN Take(translated_comments, SampleSize)
    ELSE <<>>

\* payload.get(key, default)
GetOr(payload, key, default) ==
    IF key \in DOMAIN payload THEN payload[key] ELSE default

\* faulty variant of final_results: the count is taken after the truncation
final_results_counts_sample(comments, payload) ==
    [extracted_count |-> Len(Take(comments, SampleSize)),
     comments |-> Take(comments, SampleSize),
     translated_comments |->
         extracted_translated_sample(GetOr(payload, "translated_comments", <<>>)),
     summary |-> GetOr(payload, "summary", "Summarization failed.")]

final_results(comments, payload) ==
    [extracted_count |-> Len(comments),
     comments |-> Take(comments, SampleSize),
     translated_comments |->
         extracted_translated_sample(GetOr(payload, "translated_comments", <<>>)),
     summary |-> GetOr(payload, "summary", "Summarization failed.")]

\* the comments local of generate (line 107): abort_result.get('extract'),
\* None (no comments, like the empty list) when the key is missing
CommentsOf(r) == GetOr(abort_result[r], "extract", <<>>)

(***************************************************************************)
(* generate, lines 68-99: the first resumption creates the run's            *)
(* abort_event, abort_result and msg_queue and yields the first record.    *)
(***************************************************************************)
begin(r) ==
    /\ pc[r] = "begin"
    /\ abort_event' = [abort_event EXCEPT ![r] = "clear"]
    /\ abort_result' = [abort_result EXCEPT ![r] = << >>]
    /\ msg_queue' = [msg_queue EXCEPT ![r] = <<>>]
    /\ Emit(r, StatusRecord("extracting", Message("Fetching comments from YouTube...")))
    /\ pc' = [pc EXCEPT ![r] = "L99"]
    /\ UNCHANGED <<processed_requests_cache, scenario, environ, response, req,
                   thread, hist, stored, asm>>

TaskAt(p) == IF p = "L99" THEN "extract" ELSE "trans_summary"

(***************************************************************************)
(* run_task, lines 83-84: t = threading.Thread(target); t.start().         *)
(***************************************************************************)
start_thread(r) ==
    /\ pc[r] \in {"L99", "L116"}
    /\ thread' = [thread EXCEPT ![r] =
           [task |-> TaskAt(pc[r]), tpc |-> "start", acc |-> <<>>, i |-> 0,
            pages |-> 0, chunk_summaries |-> <<>>]]
    /\ hist' = [hist EXCEPT ![r].spawned = Append(@, TaskAt(pc[r])),
                            ![r].mark = Len(out[r]),
                            ![r].timeouts = 0]
    /\ pc' = [pc EXCEPT ![r] = "L85"]
    /\ UNCHANGED <<processed_requests_cache, scenario, environ, response, req,
                   out, abort_event, abort_result, msg_queue, stored, asm>>

(***************************************************************************)
(* t.start() raising RuntimeError (no thread can be started): caught by    *)
(* the outermost handler, lines 151-152, which yields an error record.     *)
(***************************************************************************)
\* faulty variant of start_thread_fails: the outermost handler caches the failure
start_thread_fails_cached(r) ==
    /\ OneRun
    /\ pc[r] \in {"L99", "L116"}
    /\ Emit(r, ErrorRecord("can't start new thread"))
    /\ processed_requests_cache' =
           Put(processed_requests_cache, req[r].request_id, NoResults)
    /\ pc' = [pc EXCEPT ![r] = "L152"]
    /\ UNCHANGED <<scenario, environ, response, req,
                   abort_event, abort_result, msg_queue, thread, hist, stored, asm>>

start_thread_fails(r) ==
    /\ OneRun
    /\ pc[r] \in {"L99", "L116"}
    /\ Emit(r, ErrorRecord("can't start new thread"))
    /\ pc' = [pc EXCEPT ![r] = "L152"]
    /\ UNCHANGED <<processed_requests_cache, scenario, environ, response, req,
                   abort_event, abort_result, msg_queue, thread, hist, stored, asm>>

\* faulty variant of is_alive: the poll loop is left while the thread still runs
is_alive_unchecked(r) ==
    /\ pc[r] = "L85"
    /\ pc' = [pc EXCEPT ![r] = "L94"]
    /\ UNCHANGED <<processed_requests_cache, scenario, environ, response, req,
                   out, abort_event, abort_result, msg_queue, thread, hist,
                   stored, asm>>

\* run_task, line 85: while t.is_alive()
is_alive(r) ==
    /\ pc[r] = "L85"
    /\ pc' = [pc EXCEPT ![r] = IF thread[r].tpc # "dead" THEN "L86" ELSE "L94"]
    /\ UNCHANGED <<processed_requests_cache, scenario, environ, response, req,
                   out, abort_event, abort_result, msg_queue, thread, hist,
                   stored, asm>>

\* faulty variant of drain: no keep-alive record after the inner loop
drain_without_ping(r) ==
    /\ pc[r] \in {"L86", "L88"}
    /\ IF msg_queue[r] # <<>>
       THEN /\ Emit(r, StatusRecord(thread[r].task, Head(msg_queue[r])))
            /\ msg_queue' = [msg_queue EXCEPT ![r] = Tail(@)]
            /\ pc' = [pc EXCEPT ![r] = "L88"]
       ELSE /\ pc' = [pc EXCEPT ![r] = "L91"]
            /\ UNCHANGED <<out, msg_queue>>
    /\ UNCHANGED <<processed_requests_cache, scenario, environ, response, req,
                   abort_event, abort_result, thread, hist, stored, asm>>

(***************************************************************************)
(* run_task, lines 86-91: the inner drain loop of one poll, then the       *)
(* keep-alive record.                                                      *)
(***************************************************************************)
drain(r) ==
    /\ pc[r] \in {"L86", "L88"}
    /\ IF msg_queue[r] # <<>>
       THEN /\ Emit(r, StatusRecord(thread[r].task, Head(msg_queue[r])))
            /\ msg_queue' = [msg_queue EXCEPT ![r] = Tail(@)]
            /\ pc' = [pc EXCEPT ![r] = "L88"]
       ELSE /\ Emit(r, KeepAlive)
            /\ pc' = [pc EXCEPT ![r] = "L91"]
            /\ UNCHANGED msg_queue
    /\ UNCHANGED <<processed_requests_cache, scenario, environ, response, req,
                   abort_event, abort_result, thread, hist, stored, asm>>

(***************************************************************************)
(* run_task, line 92: t.join(1.0) returns when the thread has ended or     *)
(* after one second.                                                       *)
(***************************************************************************)
join(r) ==
    /\ pc[r] = "L91"
    /\ \/ /\ thread[r].tpc = "dead"
          /\ UNCHANGED hist
       \/ /\ thread[r].tpc # "dead"
          /\ hist[r].timeouts < PollLimit
          /\ hist' = [hist EXCEPT ![r].timeouts = @ + 1]
    /\ pc' = [pc EXCEPT ![r] = "L85"]
    /\ UNCHANGED <<processed_requests_cache, scenario, environ, response, req,
                   out, abort_event, abort_result, msg_queue, thread, stored, asm>>

\* faulty variant of after_extract: an empty comment list is passed on
after_extract_passes_empty(r) ==
    IF abort_event[r] = "set"
    THEN /\ pc' = [pc EXCEPT ![r] = "done"]
         /\ UNCHANGED out
    ELSE IF "extract_error" \in DOMAIN abort_result[r]
    THEN /\ Emit(r, ErrorRecord(abort_result[r]["extract_error"]))
         /\ pc' = [pc EXCEPT ![r] = "L104"]
    ELSE /\ Emit(r, StatusRecord("extracting",
                                 Message("Extracted comments successfully.")))
         /\ pc' = [pc EXCEPT ![r] = "L113"]

(***************************************************************************)
(* run_task, lines 94-96, and what follows its return: lines 101-113       *)
(* after the extract stage, lines 120-125 after the trans_summary stage.   *)
(***************************************************************************)
\* faulty variant of after_extract: the returns after the error records are missing
after_extract_falls_through(r) ==
    IF abort_event[r] = "set"
    THEN /\ pc' = [pc EXCEPT ![r] = "done"]
         /\ UNCHANGED out
    ELSE IF "extract_error" \in DOMAIN abort_result[r]
    THEN /\ Emit(r, ErrorRecord(abort_result[r]["extract_error"]))
         /\ pc' = [pc EXCEPT ![r] = "L113"]
    ELSE IF CommentsOf(r) = <<>>
    THEN /\ Emit(r, ErrorRecord("No comments found for this video."))
         /\ pc' = [pc EXCEPT ![r] = "L113"]
    ELSE /\ Emit(r, StatusRecord("extracting",
                                 Message("Extracted comments successfully.")))
         /\ pc' = [pc EXCEPT ![r] = "L113"]

after_extract(r) ==
    IF abort_event[r] = "set"
    THEN /\ pc' = [pc EXCEPT ![r] = "done"]
         /\ UNCHANGED out
    ELSE IF "extract_error" \in DOMAIN abort_result[r]
    THEN /\ Emit(r, ErrorRecord(abort_result[r]["extract_error"]))
         /\ pc' = [pc EXCEPT ![r] = "L104"]
    ELSE IF CommentsOf(r) = <<>>
    THEN /\ Emit(r, ErrorRecord("No comments found for this video."))
         /\ pc' = [pc EXCEPT ![r] = "L110"]
    ELSE /\ Emit(r, StatusRecord("extracting",
                                 Message("Extracted comments successfully.")))
         /\ pc' = [pc EXCEPT ![r] = "L113"]

\* faulty variant of after_trans_summary: trans_summary_error is not looked at
after_trans_summary_unchecked(r) ==
    IF abort_event[r] = "set"
    THEN /\ pc' = [pc EXCEPT ![r] = "done"]
         /\ UNCHANGED out
    ELSE /\ pc' = [pc EXCEPT ![r] = "L127"]
         /\ UNCHANGED out

after_trans_summary(r) ==
    IF abort_event[r] = "set"
    THEN /\ pc' = [pc EXCEPT ![r] = "done"]
         /\ UNCHANGED out
    ELSE IF "trans_summary_error" \in DOMAIN abort_result[r]
    THEN /\ Emit(r, ErrorRecord(abort_result[r]["trans_summary_error"]))
         /\ pc' = [pc EXCEPT ![r] = "L124"]
    ELSE /\ pc' = [pc EXCEPT ![r] = "L127"]
         /\ UNCHANGED out

\* faulty variant of final_drain: msg_queue.get() is called without the
\* empty() test and blocks on the empty queue
final_drain_blocking(r) ==
    /\ pc[r] \in {"L94", "L96"}
    /\ msg_queue[r] # <<>>
    /\ Emit(r, StatusRecord(thread[r].task, Head(msg_queue[r])))
    /\ msg_queue' = [msg_queue EXCEPT ![r] = Tail(@)]
    /\ pc' = [pc EXCEPT ![r] = "L96"]
    /\ UNCHANGED <<processed_requests_cache, scenario, environ, response, req,
                   abort_event, abort_result, thread, hist, stored, asm>>

final_drain(r) ==
    /\ pc[r] \in {"L94", "L96"}
    /\ IF msg_queue[r] # <<>>
       THEN /\ Emit(r, StatusRecord(thread[r].task, Head(msg_queue[r])))
            /\ msg_queue' = [msg_queue EXCEPT ![r] = Tail(@)]
            /\ pc' = [pc EXCEPT ![r] = "L96"]
       ELSE /\ IF thread[r].task = "extract"
               THEN after_extract(r) ELSE after_trans_summary(r)
            /\ UNCHANGED msg_queue
    /\ UNCHANGED <<processed_requests_cache, scenario, environ, response, req,
                   abort_event, abort_result, thread, hist, stored, asm>>

\* generate, line 116: the 'translating' record
announce(r) ==
    /\ pc[r] = "L113"
    /\ Emit(r, StatusRecord("translating",
           [text |-> "Translating and summarizing comments with Groq LLaMA...",
            n |-> Len(CommentsOf(r))]))
    /\ pc' = [pc EXCEPT ![r] = "L116"]
    /\ UNCHANGED <<processed_requests_cache, scenario, environ, response, req,
                   abort_event, abort_result, msg_queue, thread, hist, stored, asm>>

\* lines 128-138 with payload = abort_result.get('trans_summary', {})
ResultsOf(r) == final_results(CommentsOf(r), GetOr(abort_result[r], "trans_summary", << >>))

\* generate, lines 127-141: processed_requests_cache[request_id] = final_results
store(r) ==
    /\ pc[r] = "L127"
    /\ processed_requests_cache' =
           Put(processed_requests_cache, req[r].request_id, ResultsOf(r))
    /\ stored' = [stored EXCEPT ![req[r].request_id] = Append(@, ResultsOf(r))]
    /\ pc' = [pc EXCEPT ![r] = "L141"]
    /\ UNCHANGED <<scenario, environ, response, req, out, abort_event,
                   abort_result, msg_queue, thread, hist, asm>>

\* generate, line 144: the 'complete' record
complete(r) ==
    /\ pc[r] = "L141"
    /\ Emit(r, CompleteRecord(ResultsOf(r)))
    /\ pc' = [pc EXCEPT ![r] = "L144"]
    /\ UNCHANGED <<processed_requests_cache, scenario, environ, response, req,
                   abort_event, abort_result, msg_queue, thread, hist, stored, asm>>

\* the generator is resumed after its last record and returns
finish(r) ==
    /\ pc[r] \in {"L104", "L110", "L124", "L144", "L152"}
    /\ pc' = [pc EXCEPT ![r] = "done"]
    /\ UNCHANGED <<processed_requests_cache, scenario, environ, response, req,
                   out, abort_event, abort_result, msg_queue, thread, hist,
                   stored, asm>>

(***************************************************************************)
(* The client disconnects: the server closes the generator, which raises   *)
(* GeneratorExit at the yield it is suspended at.  Inside the try block    *)
(* of generate the handler of lines 146-150 sets abort_event; a generator  *)
(* that was never started, cached_generate, and the yield of line 152      *)
(* (already inside a handler) just end.                                    *)
(***************************************************************************)
Suspended == {"begin", "cached_begin", "cached_L59", "cached_L60", "L99",
              "L88", "L91", "L96", "L113", "L116", "L104", "L110", "L124",
              "L144", "L152"}
InTry == {"L99", "L88", "L91", "L96", "L113", "L116", "L104", "L110", "L124",
          "L144"}

\* faulty variant of close: GeneratorExit is swallowed and the generator goes on
close_swallowed(r) ==
    /\ pc[r] \in Suspended
    /\ hist[r].closed_at = ""
    /\ abort_event' = [abort_event EXCEPT ![r] = IF pc[r] \in InTry THEN "set" ELSE @]
    /\ hist' = [hist EXCEPT ![r].closed_at = pc[r], ![r].closed_len = Len(out[r])]
    /\ UNCHANGED <<processed_requests_cache, scenario, environ, response, req,
                   out, abort_result, msg_queue, thread, stored, asm, pc>>

\* faulty variant of close: abort_event is one Event shared by all requests
close_shared_event(r) ==
    /\ pc[r] \in Suspended
    /\ abort_event' = IF pc[r] \in InTry
                       THEN [q \in Runs |-> IF abort_event[q] = "absent"
                                            THEN "absent" ELSE "set"]
                       ELSE abort_event
    /\ hist' = [hist EXCEPT ![r].closed_at = pc[r], ![r].closed_len = Len(out[r])]
    /\ pc' = [pc EXCEPT ![r] = "closed"]
    /\ UNCHANGED <<processed_requests_cache, scenario, environ, response, req,
                   out, abort_result, msg_queue, thread, stored, asm>>

\* faulty variant of close: the GeneratorExit handler does not set abort_event
close_without_abort(r) ==
    /\ pc[r] \in Suspended
    /\ hist' = [hist EXCEPT ![r].closed_at = pc[r], ![r].closed_len = Len(out[r])]
    /\ pc' = [pc EXCEPT ![r] = "closed"]
    /\ UNCHANGED <<processed_requests_cache, scenario, environ, response, req,
                   out, abort_event, abort_result, msg_queue, thread, stored, asm>>

close(r) ==
    /\ pc[r] \in Suspended
    /\ abort_event' = [abort_event EXCEPT ![r] = IF pc[r] \in InTry THEN "set" ELSE @]
    /\ hist' = [hist EXCEPT ![r].closed_at = pc[r], ![r].closed_len = Len(out[r])]
    /\ pc' = [pc EXCEPT ![r] = "closed"]
    /\ UNCHANGED <<processed_requests_cache, scenario, environ, response, req,
                   out, abort_result, msg_queue, thread, stored, asm>>

(***************************************************************************)
(* run_task.target, lines 77-81: the outcome of func(...) is recorded in   *)
(* abort_result and the thread ends.                                       *)
(***************************************************************************)
Returns(r, value) ==
    /\ abort_result' = [abort_result EXCEPT ![r] = Put(@, thread[r].task, value)]
    /\ thread' = [thread EXCEPT ![r].tpc = "dead"]

Raises(r, e) ==
    /\ abort_result' = [abort_result EXCEPT ![r] =
           IF thread[r].task = "extract" THEN Put(@, "extract_error", e)
           ELSE Put(@, "trans_summary_error", e)]
    /\ thread' = [thread EXCEPT ![r].tpc = "dead"]

(***************************************************************************)
(* The Comment Source: what one commentThreads().list(...).execute() call  *)
(* can answer for page p (counted from 0): an HttpError, another           *)
(* exception, or a page of comment texts with or without a nextPageToken.  *)
(* With two runs each video has one fixed page.                            *)
(***************************************************************************)
PageItems(video_id, p) ==
    IF ~OneRun THEN {IF video_id = "AAAAAAAAAAA" THEN <<1>> ELSE <<0, 2>>}
    ELSE IF p = 0 THEN {<<>>, <<0, 1>>, [i \in 1..(SampleSize + 1) |-> i]}
    ELSE {<<0>>, <<100 * p + 1>>}

\* lines 55-58: blank texts are dropped
RECURSIVE NonBlank(_)
NonBlank(items) ==
    IF items = <<>> THEN <<>>
    ELSE IF Head(items) = 0 THEN NonBlank(Tail(items))
    ELSE <<Head(items)>> \o NonBlank(Tail(items))

(***************************************************************************)
(* fetch_comments(video_url, youtube_api_key, abort_event=abort_event),    *)
(* src/extract_comments.py lines 17-71.                                    *)
(***************************************************************************)
fetch_comments_start(r) ==
    /\ thread[r].task = "extract"
    /\ thread[r].tpc = "start"
    /\ hist' = [hist EXCEPT ![r].invoked = @ \cup {"fetch_comments"}]
    /\ IF req[r].youtube_api_key = <<>> /\ "YOUTUBE_API_KEY" \notin environ
       \* lines 21-26: no key given and none in the environment
       THEN Raises(r, "YouTube API key not provided.")
       ELSE IF extract_video_id(req[r].video_url) = "None"
       THEN Raises(r, "Could not extract a valid YouTube video ID")
       \* line 34, inside the try and before the first test of the token:
       \* build() gives the client or raises
       ELSE \/ /\ thread' = [thread EXCEPT ![r].tpc = "page"]
               /\ UNCHANGED abort_result
            \/ /\ OneRun
               /\ Raises(r, "Unexpected error extracting comments")
    /\ UNCHANGED <<processed_requests_cache, scenario, environ, pc, response,
                   req, out, abort_event, msg_queue, stored, asm>>

fetch_comments_page(r) ==
    /\ thread[r].task = "extract"
    /\ \/ /\ thread[r].tpc = "page"
          \* lines 41-51: the test of the token, then the request is sent
          /\ IF abort_event[r] = "set"
             THEN Returns(r, thread[r].acc)
             ELSE /\ thread' = [thread EXCEPT ![r].tpc = "page_call"]
                  /\ UNCHANGED abort_result
       \/ /\ thread[r].tpc = "page_call"
          \* lines 52-71: request.execute() answers or raises
          /\ \/ Raises(r, "YouTube API Error")
             \/ /\ OneRun
                /\ Raises(r, "Unexpected error extracting comments")
             \/ \E items \in PageItems(extract_video_id(req[r].video_url),
                                             thread[r].pages), more \in BOOLEAN :
                   LET comments == thread[r].acc \o NonBlank(items)
                   IN IF more /\ thread[r].pages + 1 < PageLimit
                      THEN /\ thread' = [thread EXCEPT ![r].acc = comments,
                                                       ![r].pages = @ + 1,
                                                       ![r].tpc = "page"]
                           /\ UNCHANGED abort_result
                      ELSE Returns(r, comments)
    /\ UNCHANGED <<processed_requests_cache, scenario, environ, pc, response,
                   req, out, abort_event, msg_queue, hist, stored, asm>>

(***************************************************************************)
(* translate_and_summarise(comments, api_key=None, abort_event=None),      *)
(* src/trans_summary.py line 128.  A call binds its keywords to these      *)
(* parameters before the body runs; a keyword that is none of them raises  *)
(* TypeError.  run_task.target (line 79) calls func with the positional    *)
(* arguments, abort_event=abort_event and the keywords run_task was given, *)
(* and line 119 gives run_task the keyword progress_callback.              *)
(***************************************************************************)
translate_and_summarise_parameters == {"comments", "api_key", "abort_event"}

\* faulty variant of the binding: any keyword is taken
AcceptsCall_any_keyword(keywords) == TRUE

AcceptsCall(keywords) == keywords \subseteq translate_and_summarise_parameters

unexpected_keyword(keywords) ==
    LET k == CHOOSE k \in keywords : k \notin translate_and_summarise_parameters
    IN "translate_and_summarise() got an unexpected keyword argument '" \o k \o "'"

translate_and_summarise_call(r, keywords) ==
    /\ thread[r].task = "trans_summary"
    /\ thread[r].tpc = "start"
    /\ IF AcceptsCall(keywords)
       THEN /\ thread' = [thread EXCEPT ![r].tpc = "batch"]
            /\ hist' = [hist EXCEPT ![r].invoked = @ \cup {"translate_and_summarise"}]
            /\ UNCHANGED abort_result
       ELSE /\ Raises(r, unexpected_keyword(keywords))
            /\ UNCHANGED hist
    /\ UNCHANGED <<processed_requests_cache, scenario, environ, pc, response,
                   req, out, abort_event, msg_queue, stored, asm>>

\* progress_callback(msg), lines 73-74: msg_queue.put(msg).  It is handed to
\* translate_and_summarise (line 119), which does not take it, and to nothing
\* else, so no stage calls it.
progress_callback(r, msg) ==
    msg_queue' = [msg_queue EXCEPT ![r] = Append(@, msg)]

\* faulty variant of the call: the stage takes the sink and reports once
translate_and_summarise_start_reporting(r) ==
    /\ thread[r].task = "trans_summary"
    /\ thread[r].tpc = "start"
    /\ thread' = [thread EXCEPT ![r].tpc = "batch"]
    /\ progress_callback(r, Message("Translating..."))
    /\ hist' = [hist EXCEPT ![r].invoked = @ \cup {"translate_and_summarise"},
                            ![r].enqueued = Append(@, Message("Translating..."))]
    /\ UNCHANGED <<processed_requests_cache, scenario, environ, pc, response,
                   req, out, abort_event, abort_result, stored, asm>>

\* the call of generate, line 119, through run_task.target, line 79
translate_and_summarise_start(r) ==
    translate_and_summarise_call(r, {"abort_event", "progress_callback"})

\* the model's translation of one comment text
Translated(batch) == [k \in 1..Len(batch) |-> batch[k] + 1000]

\* lines 50-65: a reply of k non-blank lines gives the k translations followed by
\* the untranslated rest of the batch, cut to the length of the batch
parsed_batch(batch, k) ==
    [j \in 1..Len(batch) |-> IF j <= k THEN Translated(batch)[j] ELSE batch[j]]

\* the numbers of non-blank lines a reply to a batch can have: none, one, one
\* too few, as many as the batch, one too many
ReplyLines(batch) ==
    IF OneRun
    THEN {k \in {0, 1, Len(batch) - 1, Len(batch), Len(batch) + 1} : k >= 0}
    ELSE {Len(batch)}

(***************************************************************************)
(* translate_comments, lines 34-70: one iteration of the batch loop, which *)
(* ends after the last batch.  The token is tested when the iteration      *)
(* starts; the call to the language model then answers or raises, and a    *)
(* failed call keeps the batch untranslated.                               *)
(***************************************************************************)
translate_comments_batch(r) ==
    /\ thread[r].task = "trans_summary"
    /\ LET comments == CommentsOf(r)
           i == thread[r].i
           batch == Slice(comments, i, batch_size)
       IN \/ /\ thread[r].tpc = "batch"
             \* lines 34-49: end of the loop, the test of the token, the request
             \* is sent
             /\ thread' = [thread EXCEPT ![r].tpc =
                    IF i >= Len(comments) \/ abort_event[r] = "set"
                    THEN "translated" ELSE "batch_call"]
          \/ /\ thread[r].tpc = "batch_call"
             \* lines 49-70: _call_groq answers with a text of k lines; or it
             \* raises, or answers None and line 50 raises, and the batch is kept
             /\ \E result \in {parsed_batch(batch, k) : k \in ReplyLines(batch)}
                              \cup (IF OneRun THEN {batch} ELSE {}) :
                   thread' = [thread EXCEPT
                       ![r].acc = @ \o result,
                       ![r].i = i + batch_size,
                       ![r].tpc = IF i + batch_size >= Len(comments)
                                  THEN "translated" ELSE "batch"]
    /\ UNCHANGED <<processed_requests_cache, scenario, environ, pc, response,
                   req, out, abort_event, abort_result, msg_queue, hist, stored, asm>>

\* faulty variant of translate_and_summarise_translated: the token is not
\* looked at between translation and summarization
translate_and_summarise_unchecked(r) ==
    /\ thread[r].task = "trans_summary"
    /\ thread[r].tpc = "translated"
    /\ thread' = [thread EXCEPT ![r].tpc = "chunk", ![r].i = 0]
    /\ UNCHANGED <<processed_requests_cache, scenario, environ, pc, response,
                   req, out, abort_event, abort_result, msg_queue, hist, stored, asm>>

\* translate_and_summarise, lines 131-137
translate_and_summarise_translated(r) ==
    /\ thread[r].task = "trans_summary"
    /\ thread[r].tpc = "translated"
    /\ IF abort_event[r] = "set"
       THEN Returns(r, [translated_comments |-> thread[r].acc,
                        summary |-> "Process aborted by user."])
       ELSE /\ thread' = [thread EXCEPT ![r].tpc = "chunk", ![r].i = 0]
            /\ UNCHANGED abort_result
    /\ UNCHANGED <<processed_requests_cache, scenario, environ, pc, response,
                   req, out, abort_event, msg_queue, hist, stored, asm>>

\* summarize_comments, lines 79-94: one iteration of the chunk loop
summarize_comments_chunk(r) ==
    /\ thread[r].task = "trans_summary"
    /\ \/ /\ thread[r].tpc = "chunk"
          \* lines 79-91: end of the loop, the test of the token, the request is sent
          /\ thread' = [thread EXCEPT ![r].tpc =
                 IF thread[r].i >= Len(thread[r].acc) \/ abort_event[r] = "set"
                 THEN "summarised" ELSE "chunk_call"]
       \/ /\ thread[r].tpc = "chunk_call"
          \* lines 91-94: what _call_groq answers is appended, None included;
          \* a call that raises adds nothing
          /\ \E outcome \in CallOutcomes :
                thread' = [thread EXCEPT
                    ![r].chunk_summaries =
                        CASE outcome = "text" -> Append(@, "<chunk summary>")
                          [] outcome = "None" -> Append(@, None)
                          [] OTHER -> @,
                    ![r].i = @ + chunk_size,
                    ![r].tpc = IF thread[r].i + chunk_size >= Len(thread[r].acc)
                               THEN "summarised" ELSE "chunk"]
    /\ UNCHANGED <<processed_requests_cache, scenario, environ, pc, response,
                   req, out, abort_event, abort_result, msg_queue, hist,
                   stored, asm>>

\* str.join, line 118: the TypeError raised for the first item that is None
join_TypeError(items) ==
    LET k == CHOOSE k \in 1..Len(items) :
                 items[k] = None /\ \A j \in 1..(k - 1) : items[j] # None
    IN "sequence item " \o ToString(k - 1) \o ": expected str instance, NoneType found"

\* summarize_comments, lines 96-126, and the return of lines 139-142
summarize_comments_final(r) ==
    /\ thread[r].task = "trans_summary"
    /\ \/ /\ thread[r].tpc = "summarised"
          \* lines 96-119: the two early returns; else the chunk summaries are
          \* joined, outside any try, and the final request is sent
          /\ IF thread[r].chunk_summaries = <<>>
             THEN Returns(r, [translated_comments |-> thread[r].acc,
                              summary |-> "Not enough data or summarization failed."])
             ELSE IF abort_event[r] = "set"
             THEN Returns(r, [translated_comments |-> thread[r].acc,
                              summary |-> "Not enough data or summarization aborted."])
             ELSE IF \E k \in 1..Len(thread[r].chunk_summaries) :
                         thread[r].chunk_summaries[k] = None
             THEN Raises(r, join_TypeError(thread[r].chunk_summaries))
             ELSE /\ thread' = [thread EXCEPT ![r].tpc = "final_call"]
                  /\ UNCHANGED abort_result
       \/ /\ thread[r].tpc = "final_call"
          \* lines 120-126: _call_groq answers JSON; or it raises, or json.loads
          \* raises on None, and the joined chunk summaries are returned
          /\ \E summary \in {IF outcome = "text" THEN "<structured summary>"
                              ELSE "<chunk summaries>" : outcome \in CallOutcomes} :
                Returns(r, [translated_comments |-> thread[r].acc, summary |-> summary])
    /\ UNCHANGED <<processed_requests_cache, scenario, environ, pc, response,
                   req, out, abort_event, msg_queue, hist, stored, asm>>

(***************************************************************************)
(* The response body of a 200 response is iterated by the server: the      *)
(* first records of cached_generate (lines 58-60) or of generate (lines    *)
(* 68-99), whichever process_video returned.                               *)
(***************************************************************************)
Response(r) ==
    /\ pc[r] \in {"cached_begin", "cached_L59", "cached_L60", "begin"}
    /\ \/ cached_generate(r)
       \/ begin(r)

(***************************************************************************)
(* generate, lines 127-152, after the second run_task invocation: the      *)
(* result is assembled and stored, the 'complete' record is yielded, and   *)
(* the generator, resumed after its last record, returns.                  *)
(***************************************************************************)
generate_end(r) ==
    /\ pc[r] \in {"L127", "L141", "L104", "L110", "L124", "L144", "L152"}
    /\ \/ store(r)
       \/ complete(r)
       \/ finish(r)

(***************************************************************************)
(* The stage thread of translate_and_summarise: the call, and the body of  *)
(* src/trans_summary.py lines 128-142 with translate_comments and          *)
(* summarize_comments.                                                     *)
(***************************************************************************)
translate_and_summarise(r) ==
    /\ thread[r].task = "trans_summary"
    /\ \/ translate_and_summarise_start(r)
       \/ translate_comments_batch(r)
       \/ translate_and_summarise_translated(r)
       \/ summarize_comments_chunk(r)
       \/ summarize_comments_final(r)

(***************************************************************************)
(* The next-state relation: the request contexts and the stage threads of  *)
(* all runs interleave.                                                    *)
(***************************************************************************)
Next ==
    \/ \E r \in Runs :
          \E data \in RequestBodies(UrlsSent(r), IdsSent(r)) : process_video(r, data)
    \/ \E r \in Runs : Response(r)
    \/ \E r \in Runs : start_thread(r)
    \/ \E r \in Runs : start_thread_fails(r)
    \/ \E r \in Runs : is_alive(r)
    \/ \E r \in Runs : drain(r)
    \/ \E r \in Runs : join(r)
    \/ \E r \in Runs : final_drain(r)
    \/ \E r \in Runs : announce(r)
    \/ \E r \in Runs : generate_end(r)
    \/ \E r \in Runs : close(r)
    \/ \E r \in Runs : fetch_comments_start(r)
    \/ \E r \in Runs : fetch_comments_page(r)
    \/ \E r \in Runs : translate_and_summarise(r)

Spec == Init /\ [][Next]_vars

(***************************************************************************)
(* Result assembly on its own: generate, lines 127-138, applied to every   *)
(* list of n comments and every payload of m translated comments (or one   *)
(* without the key, or {}), n and m up to MaxLen.                          *)
(***************************************************************************)
Texts(n, base) == [i \in 1..n |-> base + i]

Payloads ==
    {[translated_comments |-> Texts(m, 1000), summary |-> "<structured summary>"] :
        m \in 0..MaxLen}
    \cup {[summary |-> "<chunk summaries>"], << >>}

AsmInit ==
    /\ processed_requests_cache = << >>
    /\ scenario = "one run"
    /\ environ \in SUBSET EnvironmentVariables
    /\ pc = [r \in Runs |-> "idle"]
    /\ response = [r \in Runs |-> NoResponse]
    /\ req = [r \in Runs |-> NoReq]
    /\ out = [r \in Runs |-> <<>>]
    /\ abort_event = [r \in Runs |-> "absent"]
    /\ abort_result = [r \in Runs |-> << >>]
    /\ msg_queue = [r \in Runs |-> <<>>]
    /\ thread = [r \in Runs |-> NoThread]
    /\ hist = [r \in Runs |-> NoHist]
    /\ stored = [k \in RequestIds |-> <<>>]
    /\ \E n \in 0..MaxLen, payload \in Payloads :
          asm = [state |-> "input", comments |-> Texts(n, 0),
                 payload |-> payload, results |-> NoResults]

assemble ==
    /\ asm.state = "input"
    /\ asm' = [asm EXCEPT !.state = "assembled",
                          !.results = final_results(asm.comments, asm.payload)]
    /\ UNCHANGED <<processed_requests_cache, scenario, environ, pc,
                   response, req, out, abort_event, abort_result, msg_queue,
                   thread, hist, stored>>

AsmNext == assemble

AsmSpec == AsmInit /\ [][AsmNext]_vars

(***************************************************************************)
(* The two collaborators on their own: run_task.target (lines 77-81) calls *)
(* fetch_comments(video_url, youtube_api_key, abort_event=abort_event) or  *)
(* translate_and_summarise(comments, groq_api_key,                         *)
(* abort_event=abort_event), the keywords the functions declare, on every  *)
(* url and on lists of no, one, two, batch_size and batch_size + 1         *)
(* comments, while the owner of abort_event may set it at any moment.      *)
(***************************************************************************)
StageComments == {Texts(n, 0) : n \in {0, 1, 2, batch_size, batch_size + 1}}

StageStart(task) ==
    [r \in Runs |-> IF r = "r1" THEN [NoThread EXCEPT !.task = task, !.tpc = "start"]
                    ELSE NoThread]

StageInit ==
    /\ processed_requests_cache = << >>
    /\ scenario = "one run"
    /\ environ \in SUBSET EnvironmentVariables
    /\ pc = [r \in Runs |-> "idle"]
    /\ response = [r \in Runs |-> NoResponse]
    /\ out = [r \in Runs |-> <<>>]
    /\ abort_event = [r \in Runs |-> IF r = "r1" THEN "clear" ELSE "absent"]
    /\ msg_queue = [r \in Runs |-> <<>>]
    /\ hist = [r \in Runs |-> NoHist]
    /\ stored = [k \in RequestIds |-> <<>>]
    /\ asm = AsmIdle
    /\ \/ /\ thread = StageStart("extract")
          /\ \E url \in Urls, api_key \in {<<>>, <<"k">>} :
                req = [r \in Runs |-> IF r = "r1"
                                      THEN [NoReq EXCEPT !.video_url = url,
                                                         !.youtube_api_key = api_key]
                                      ELSE NoReq]
          /\ abort_result = [r \in Runs |-> << >>]
       \/ /\ thread = StageStart("trans_summary")
          /\ req = [r \in Runs |-> NoReq]
          /\ \E comments \in StageComments :
                abort_result = [r \in Runs |-> IF r = "r1" THEN [extract |-> comments]
                                               ELSE << >>]

\* translate_and_summarise(comments, groq_api_key, abort_event=abort_event)
translate_and_summarise_direct(r) == translate_and_summarise_call(r, {"abort_event"})

\* abort_event.set(), line 150, by the thread that owns the event
abort_event_set(r) ==
    /\ abort_event[r] = "clear"
    /\ abort_event' = [abort_event EXCEPT ![r] = "set"]
    /\ UNCHANGED <<processed_requests_cache, scenario, environ, pc, response, req, out,
                   abort_result, msg_queue, thread, hist, stored, asm>>

StageNext ==
    \/ \E r \in Runs : abort_event_set(r)
    \/ \E r \in Runs : fetch_comments_start(r)
    \/ \E r \in Runs : fetch_comments_page(r)
    \/ \E r \in Runs : translate_and_summarise_direct(r)
    \/ \E r \in Runs : translate_comments_batch(r)
    \/ \E r \in Runs : translate_and_summarise_translated(r)
    \/ \E r \in Runs : summarize_comments_chunk(r)
    \/ \E r \in Runs : summarize_comments_final(r)

StageSpec == StageInit /\ [][StageNext]_vars

(***************************************************************************)
(* Observations the properties are stated on.                              *)
(***************************************************************************)
Last(s) == s[Len(s)]
Range(s) == {s[i] : i \in 1..Len(s)}

\* the records run_task relayed from the queue, and their messages
IsRelayed(rec) == rec.kind = "status" /\ rec.status \in {"extract", "trans_summary"}
Relayed(r) == SelectSeq(out[r], IsRelayed)
RelayedMessages(r) == [i \in 1..Len(Relayed(r)) |-> Relayed(r)[i].message]

IsError(rec) == rec.kind = "error"
Errors(r) == SelectSeq(out[r], IsError)

LoadingRecord == StatusRecord("extracting", Message("Loading from cache..."))

\* the stream of a request served from the cache, as far as it has got
CachedStreamSoFar(r) ==
    \/ out[r] = <<>>
    \/ out[r] = <<LoadingRecord>>
    \/ /\ Len(out[r]) = 2
       /\ out[r][1] = LoadingRecord
       /\ out[r][2].kind = "complete"

NoBackgroundWork(r) ==
    /\ hist[r].spawned = <<>>
    /\ hist[r].invoked = {}
    /\ thread[r] = NoThread

(***************************************************************************)
(* C1: every valid request whose request_id process_video has seen before  *)
(* is answered with exactly the two records 'extracting' (Loading from     *)
(* cache...) and 'complete', and neither fetch_comments nor                *)
(* translate_and_summarise is invoked for it.                              *)
(***************************************************************************)
C1_SeenRequestServedFromCache ==
    \A r \in Runs :
        (response[r].code = 200 /\ hist[r].seen_before) =>
            /\ NoBackgroundWork(r)
            /\ CachedStreamSoFar(r)
            /\ pc[r] = "done" => Len(out[r]) = 2

(***************************************************************************)
(* C2: for a valid, uncached request whose Comment Source returned at     *)
(* least one comment, whose Language Pipeline stage was started through    *)
(* run_task and whose client read the stream to its end, the stage's       *)
(* result is recorded, the stream ends with a 'complete' record carrying   *)
(* the assembled result, and processed_requests_cache holds that result    *)
(* under the request_id.                                                   *)
(***************************************************************************)
C2_PipelineEndsComplete ==
    \A r \in Runs :
        (pc[r] = "done" /\ hist[r].spawned = <<"extract", "trans_summary">>) =>
            /\ Last(out[r]).kind = "complete"
            /\ "trans_summary" \in DOMAIN abort_result[r]
            /\ Last(out[r]).results = ResultsOf(r)
            /\ req[r].request_id \in DOMAIN processed_requests_cache
            /\ processed_requests_cache[req[r].request_id] = Last(out[r]).results

(***************************************************************************)
(* C3: a request that lacks url, or whose youtube_api_key, groq_api_key or *)
(* request_id is missing or blank, gets a 400 response and nothing else:   *)
(* no stream record, no stage thread, no collaborator call, no abort_event *)
(* -- also when its request_id is a key of the cache; and only such        *)
(* requests are rejected.  The step that rejects it leaves                 *)
(* processed_requests_cache as it was.                                     *)
(***************************************************************************)
C3_Rejected(r) ==
    /\ pc[r] = "rejected"
    /\ response[r].code = 400
    /\ response[r].error =
         (IF "url" \in hist[r].lacks THEN "URL is required"
          ELSE IF hist[r].lacks \cap {"youtube_api_key", "groq_api_key"} # {}
          THEN "Both YouTube and Groq API keys are required."
          ELSE "request_id is required to prevent duplicate processing.")
    /\ out[r] = <<>>
    /\ NoBackgroundWork(r)
    /\ abort_event[r] = "absent"
    /\ msg_queue[r] = <<>>

C3_InvalidRequestRejected ==
    /\ [](\A r \in Runs :
            /\ (pc[r] # "idle" /\ hist[r].lacks # {}) => C3_Rejected(r)
            /\ pc[r] = "rejected" => hist[r].lacks # {})
    /\ [][\A r \in Runs :
            (pc[r] = "idle" /\ pc'[r] = "rejected") =>
                processed_requests_cache' = processed_requests_cache]_vars

\* rejected for its blank groq_api_key, with a request_id a valid request carried
C3_Witness ==
    \E r \in Runs :
        /\ pc[r] = "rejected"
        /\ hist[r].lacks = {"groq_api_key"}
        /\ hist[r].seen_before

C5_SilentAfterCancel ==
    \A r \in Runs :
        hist[r].closed_at # "" =>
            /\ pc[r] = "closed"
            /\ Len(out[r]) = hist[r].closed_len
            /\ (hist[r].closed_at \notin {"L104", "L110", "L124", "L144", "L152",
                                         "cached_L60"})
                   => \A i \in 1..Len(out[r]) : ~IsTerminal(out[r][i])

\* cancelled between the stages; the Language Pipeline stage never starts
C5_Witness ==
    \E r \in Runs :
        /\ hist[r].closed_at \in {"L113", "L116"}
        /\ hist[r].spawned = <<"extract">>
        /\ thread[r].tpc = "dead"
        /\ abort_event[r] = "set"
        /\ CommentsOf(r) # <<>>

(***************************************************************************)
(* C6: when fetch_comments returned an empty list the stream never holds a *)
(* 'translating' record, the Language Pipeline stage is never started, the *)
(* only error record the stream can hold is 'No comments found for this    *)
(* video.' as its last record, and a stream read to its end holds exactly  *)
(* that one error record.  (A client that disconnects first gets none.)    *)
(***************************************************************************)
C6_EmptyExtractEndsInError ==
    \A r \in Runs :
        ("extract" \in DOMAIN abort_result[r] /\ CommentsOf(r) = <<>>) =>
            /\ \A i \in 1..Len(out[r]) : out[r][i].status # "translating"
            /\ hist[r].spawned = <<"extract">>
            /\ "translate_and_summarise" \notin hist[r].invoked
            /\ Errors(r) \in {<<>>, <<ErrorRecord("No comments found for this video.")>>}
            /\ Errors(r) # <<>> => IsError(Last(out[r]))
            /\ pc[r] = "done" => Len(Errors(r)) = 1

C6_Witness ==
    \E r \in Runs :
        /\ pc[r] = "done"
        /\ "extract" \in DOMAIN abort_result[r]
        /\ CommentsOf(r) = <<>>
        /\ Last(out[r]) = ErrorRecord("No comments found for this video.")

(***************************************************************************)
(* C7: a request that carries the request_id of a run that has completed   *)
(* (its stream was read to its end) gets, in a 'complete' record that ends *)
(* its stream, the result the first run stored, whatever url it carries,   *)
(* and the cache still holds that result under the request_id.             *)
(***************************************************************************)
C7_RetryReturnsFirstResult ==
    \A r \in Runs :
        (hist[r].retry /\ pc[r] = "done") =>
            LET k == req[r].request_id
            IN /\ Last(out[r]).kind = "complete"
               /\ stored[k] # <<>>
               /\ Last(out[r]).results = stored[k][1]
               /\ k \in DOMAIN processed_requests_cache
               /\ processed_requests_cache[k] = stored[k][1]

(***************************************************************************)
(* C8: for n extracted comments and m translated comments the assembled    *)
(* result has extracted_count = n, comments = the first min(n, 20)         *)
(* extracted comments in order and translated_comments = the first         *)
(* min(m, 20) translated comments in order.                                *)
(***************************************************************************)
C8_Truncation ==
    asm.state = "assembled" =>
        LET comments == asm.comments
            translated == GetOr(asm.payload, "translated_comments", <<>>)
            n == Len(comments)
            m == Len(translated)
            res == asm.results
        IN /\ res.extracted_count = n
           /\ Len(res.comments) = (IF n < 20 THEN n ELSE 20)
           /\ \A i \in 1..Len(res.comments) : res.comments[i] = comments[i]
           /\ Len(res.translated_comments) = (IF m < 20 THEN m ELSE 20)
           /\ \A i \in 1..Len(res.translated_comments) :
                 res.translated_comments[i] = translated[i]

C8_Witness ==
    /\ asm.state = "assembled"
    /\ Len(asm.comments) = 37
    /\ "translated_comments" \in DOMAIN asm.payload
    /\ Len(asm.payload["translated_comments"]) = 37
    /\ asm.results.extracted_count = 37
    /\ Len(asm.results.comments) = 20
    /\ Len(asm.results.translated_comments) = 20

(***************************************************************************)
(* C10: when a stage's thread outlived a poll interval (join(1.0) timed    *)
(* out) and the stage has enqueued no progress message, the first record   *)
(* emitted since the stage started is a keep-alive record: a padding       *)
(* record precedes the next data record.                                   *)
(***************************************************************************)
C10_KeepAliveBeforeData ==
    \A r \in Runs :
        (hist[r].timeouts >= 1 /\ hist[r].enqueued = <<>>) =>
            /\ Len(out[r]) > hist[r].mark
            /\ out[r][hist[r].mark + 1].kind = "keepalive"

\* the stage outlived a poll interval and the next data record has been emitted
C10_Witness ==
    \E r \in Runs :
        /\ hist[r].timeouts >= 1
        /\ hist[r].enqueued = <<>>
        /\ \E i \in (hist[r].mark + 1)..Len(out[r]) : IsData(out[r][i])

(***************************************************************************)
(* C11: within one run the stages are sequential: whenever the generator   *)
(* is outside the poll loop of run_task (run_task has returned, or has not *)
(* been entered) no stage thread of the run is alive; a stage thread is    *)
(* started only when none is alive; and the Language Pipeline stage is     *)
(* started only from line 116, after the Comment Source thread has ended   *)
(* with a non-empty result and no failure, in a run that was not           *)
(* cancelled.                                                              *)
(***************************************************************************)
OutsidePollLoop == {"idle", "rejected", "begin", "cached_begin", "cached_L59",
                    "cached_L60", "L99", "L94", "L96", "L104", "L110", "L113",
                    "L116", "L124", "L127", "L141", "L144", "L152", "done"}

Alive(r) == thread[r].tpc # "dead"

Spawns(r) == Len(hist'[r].spawned) = Len(hist[r].spawned) + 1

C11_StagesSequential ==
    /\ [](\A r \in Runs :
            /\ pc[r] \in OutsidePollLoop => ~Alive(r)
            /\ hist[r].spawned \in {<<>>, <<"extract">>, <<"extract", "trans_summary">>}
            /\ "trans_summary" \in Range(hist[r].spawned) =>
                  /\ "extract" \in DOMAIN abort_result[r]
                  /\ "extract_error" \notin DOMAIN abort_result[r]
                  /\ CommentsOf(r) # <<>>)
    /\ [][\A r \in Runs :
            Spawns(r) =>
                /\ ~Alive(r)
                /\ hist[r].closed_at = ""
                /\ abort_event[r] = "clear"
                /\ hist[r].spawned = <<"extract">> =>
                      /\ pc[r] = "L116"
                      /\ thread[r].task = "extract"
                      /\ hist'[r].spawned = <<"extract", "trans_summary">>]_vars

\* the Language Pipeline thread runs, the Comment Source thread having ended
C11_Witness ==
    \E r \in Runs :
        /\ hist[r].spawned = <<"extract", "trans_summary">>
        /\ thread[r].task = "trans_summary"
        /\ Alive(r)
        /\ pc[r] \in {"L85", "L86", "L88", "L91"}

(***************************************************************************)
(* C12: when a stage raised (target recorded extract_error or              *)
(* trans_summary_error) the only error record the stream can hold is the   *)
(* one carrying the recorded message, as its last record; a stream read to *)
(* its end holds exactly that one; it never holds a 'complete' record; the *)
(* generator never reaches result assembly; and no stage is started after  *)
(* the one that raised.                                                    *)
(***************************************************************************)
StageOfError == [extract_error |-> "extract", trans_summary_error |-> "trans_summary"]

C12_StageFailureEndsInError ==
    \A r \in Runs : \A key \in DOMAIN StageOfError :
        key \in DOMAIN abort_result[r] =>
            LET e == ErrorRecord(abort_result[r][key])
            IN /\ Errors(r) \in {<<>>, <<e>>}
               /\ Errors(r) # <<>> => Last(out[r]) = e
               /\ pc[r] = "done" => Errors(r) = <<e>>
               /\ \A i \in 1..Len(out[r]) : out[r][i].kind # "complete"
               /\ pc[r] \notin {"L127", "L141", "L144"}
               /\ Last(hist[r].spawned) = StageOfError[key]
               /\ thread[r].task = StageOfError[key]
               /\ ~Alive(r)

\* the Language Pipeline stage raised; the stream was read to its end
C12_Witness ==
    \E r \in Runs :
        /\ pc[r] = "done"
        /\ "trans_summary_error" \in DOMAIN abort_result[r]
        /\ Len(out[r]) >= 4
        /\ Last(out[r]) = ErrorRecord(abort_result[r]["trans_summary_error"])
        /\ Len(Errors(r)) = 1

(***************************************************************************)
(* C13: a 'complete' or 'error' record is the last record of its stream:   *)
(* every stream holds at most one terminal record and no record, data or   *)
(* keep-alive, after it -- on the cached path, on the pipeline path and    *)
(* when the outermost handler (line 152) reports an exception.             *)
(***************************************************************************)
C13_TerminalRecordIsLast ==
    \A r \in Runs :
        \A i \in 1..Len(out[r]) : IsTerminal(out[r][i]) => i = Len(out[r])

\* the outermost handler reported an exception, and the stream was read to its end
C13_Witness ==
    \E r \in Runs :
        /\ pc[r] = "done"
        /\ Last(out[r]) = ErrorRecord("can't start new thread")
        /\ Len(out[r]) >= 2

(***************************************************************************)
(* The system keeps going: the server resumes a generator whose client     *)
(* reads (or closes it when the client is gone), a started thread runs,    *)
(* and every call to an external API returns or raises.  Weak fairness of  *)
(* Next is all the properties below need.                                  *)
(***************************************************************************)
FairSpec == Spec /\ WF_vars(Next)

(***************************************************************************)
(* C14: every started stream eventually closes -- its generator returns or *)
(* is closed by a disconnect -- and the stream of a generator that         *)
(* returned (the client never disconnected) ends with a terminal           *)
(* 'complete' or 'error' record.  (A generator that returned or was closed *)
(* stays so, and a started run stays started, so "every started stream     *)
(* eventually closes" is: from some point on every started stream is       *)
(* closed.)                                                                *)
(***************************************************************************)
Started(r) == pc[r] \notin {"idle", "rejected"}
Closed(r) == pc[r] \in {"done", "closed"}

C14_StreamTerminates ==
    /\ <>[](\A r \in Runs : Started(r) => Closed(r))
    /\ [](\A r \in Runs :
            pc[r] = "done" => (out[r] # <<>> /\ IsTerminal(Last(out[r]))))

\* a stream that went through both stages and polls has returned
C14_Witness ==
    \E r \in Runs :
        /\ pc[r] = "done"
        /\ hist[r].spawned = <<"extract", "trans_summary">>
        /\ hist[r].timeouts >= 1
        /\ IsTerminal(Last(out[r]))

(***************************************************************************)
(* C15: a stage thread that stands at an iteration boundary with the token *)
(* set issues no further call to an external API: the step it takes there  *)
(* is the step of the checkpoint -- it leaves the loop with what it has    *)
(* collected, or returns it -- and no step taken with the token set sends  *)
(* a request.  (A call already in flight when the token is set is not      *)
(* interrupted; its outcome is taken, and the boundary that follows, if    *)
(* any, stops the stage.)  After translation translate_and_summarise       *)
(* returns 'Process aborted by user.' without entering summarize_comments. *)
(***************************************************************************)
\* the positions of a stage thread that waits for the answer of an external API
InCall == {"page_call", "batch_call", "chunk_call", "final_call"}

ReturnsPartial(r, value) ==
    /\ ~Alive(r)'
    /\ abort_result'[r] = Put(abort_result[r], thread[r].task, value)

LeavesLoop(r, next) ==
    /\ thread'[r] = [thread[r] EXCEPT !.tpc = next]
    /\ UNCHANGED <<abort_result, msg_queue>>

CheckpointStep(r) ==
    CASE thread[r].tpc = "start" -> TRUE
      [] thread[r].tpc = "page" -> ReturnsPartial(r, thread[r].acc)
      [] thread[r].tpc = "batch" -> LeavesLoop(r, "translated")
      [] thread[r].tpc = "translated" ->
            ReturnsPartial(r, [translated_comments |-> thread[r].acc,
                               summary |-> "Process aborted by user."])
      [] thread[r].tpc = "chunk" -> LeavesLoop(r, "summarised")
      [] thread[r].tpc = "summarised" ->
            \E why \in {"Not enough data or summarization failed.",
                        "Not enough data or summarization aborted."} :
               ReturnsPartial(r, [translated_comments |-> thread[r].acc,
                                  summary |-> why])
      [] OTHER -> FALSE

C15_NoCallsOnceCancelled ==
    [][\A r \in Runs :
          (abort_event[r] = "set" /\ thread'[r] # thread[r]) =>
              /\ thread'[r].tpc \notin InCall
              /\ thread[r].tpc \notin InCall => CheckpointStep(r)]_vars

\* cancelled between two batches: the first batch is returned, translated, and
\* summarization was skipped
C15_Witness ==
    \E r \in Runs :
        /\ abort_event[r] = "set"
        /\ "trans_summary" \in DOMAIN abort_result[r]
        /\ abort_result[r]["trans_summary"].summary = "Process aborted by user."
        /\ Len(abort_result[r]["trans_summary"].translated_comments) = batch_size
        /\ Len(CommentsOf(r)) > batch_size

(***************************************************************************)
(* C16 (as stated): the token is set when an unrecoverable error occurs in *)
(* the run: once the outermost handler of generate (line 151) has caught   *)
(* an exception, abort_event is set.                                       *)
(***************************************************************************)
C16_SetOnUnrecoverableError ==
    \A r \in Runs :
        (pc[r] = "L152" \/ (pc[r] = "done" /\ Last(out[r]) = ErrorRecord("can't start new thread")))
            => abort_event[r] = "set"

(***************************************************************************)
(* C16 (amended): the token of a run does not exist before generate        *)
(* starts, starts unset, is set by a client disconnect at a yield inside   *)
(* the try block of generate and by nothing else -- no error of the run    *)
(* sets it -- and once set it is never cleared.                            *)
(***************************************************************************)
C16_WriteOnceOnDisconnect ==
    /\ [](\A r \in Runs :
            /\ abort_event[r] = "absent" <=>
                  pc[r] \in {"idle", "rejected", "begin", "cached_begin", "cached_L59",
                             "cached_L60"}
                  \/ (hist[r].closed_at \in {"begin", "cached_begin", "cached_L59",
                                             "cached_L60"})
                  \/ (pc[r] = "done" /\ hist[r].hit)
            /\ abort_event[r] = "set" <=> hist[r].closed_at \in InTry)
    /\ [][\A r \in Runs :
            /\ abort_event[r] = "set" => abort_event'[r] = "set"
            /\ abort_event[r] = "clear" => abort_event'[r] \in {"clear", "set"}]_vars

\* the client left while a stage was running; the stage has since ended
C16_Witness ==
    \E r \in Runs :
        /\ abort_event[r] = "set"
        /\ hist[r].closed_at \in {"L88", "L91"}
        /\ ~Alive(r)
        /\ thread[r].task = "trans_summary"

(***************************************************************************)
(* C17: a poll iteration of run_task emits a keep-alive record only if     *)
(* nothing was pending on that poll: no keep-alive record directly follows *)
(* a relayed progress message (the keep-alive of an iteration follows its  *)
(* drained messages directly), and the step that emits a keep-alive record *)
(* is the step of a poll that has drained nothing and finds the queue      *)
(* empty.                                                                  *)
(***************************************************************************)
IsKeepAlive(rec) == rec.kind = "keepalive"
KeepAlives(s) == Len(SelectSeq(s, IsKeepAlive))

Local(q) == <<pc[q], response[q], req[q], out[q], abort_event[q], abort_result[q],
              msg_queue[q], thread[q], hist[q]>>

GaveUp(q) ==
    /\ "trans_summary" \in DOMAIN abort_result[q]
    /\ abort_result[q]["trans_summary"].summary \in
           {"Process aborted by user.", "Not enough data or summarization aborted."}

C18_RunsIsolated ==
    /\ [][\E r \in Runs : \A q \in Runs \ {r} : Local(q)' = Local(q)]_vars
    /\ [](\A q \in Runs :
            /\ GaveUp(q) => abort_event[q] = "set"
            /\ abort_event[q] = "set" => hist[q].closed_at \in InTry
            /\ RelayedMessages(q) \o msg_queue[q] = hist[q].enqueued)

\* one run was cancelled while its stage ran; another run, started before the
\* cancellation took effect, went through both stages to its end
C18_Witness ==
    \E r \in Runs, q \in Runs :
        /\ r # q
        /\ abort_event[r] = "set"
        /\ hist[r].closed_at \in {"L88", "L91"}
        /\ pc[q] = "done"
        /\ abort_event[q] = "clear"
        /\ hist[q].spawned = <<"extract", "trans_summary">>
        /\ ~hist[q].hit

(***************************************************************************)
(* C19: processed_requests_cache changes only by the write of line 141, in *)
(* a step of a run whose second stage has returned a result and that is    *)
(* then at result assembly: that step puts the run's final_results under   *)
(* the run's request_id and touches no other entry.  So the keys of the    *)
(* cache only grow, and every write belongs to a run that reached line     *)
(* 141: a run whose stream holds an error record, and a run closed by a    *)
(* disconnect anywhere but at the yield of its 'complete' record, wrote    *)
(* nothing.                                                                *)
(***************************************************************************)
Wrote(r) ==
    \/ pc[r] \in {"L141", "L144"}
    \/ pc[r] = "done" /\ ~hist[r].hit /\ out[r] # <<>> /\ Last(out[r]).kind = "complete"
    \/ pc[r] = "closed" /\ hist[r].closed_at = "L144"

WritesOf(k) == {r \in Runs : Wrote(r) /\ req[r].request_id = k}

C19_CacheChangesOnlyAtAssembly ==
    /\ [](\A r \in Runs :
            /\ Wrote(r) => (Errors(r) = <<>> /\ "trans_summary" \in DOMAIN abort_result[r])
            /\ \A k \in RequestIds :
                  /\ Len(stored[k]) = Cardinality(WritesOf(k))
                  /\ k \in DOMAIN processed_requests_cache <=> stored[k] # <<>>
                  /\ stored[k] # <<>> => processed_requests_cache[k] = Last(stored[k]))
    /\ [][/\ DOMAIN processed_requests_cache \subseteq DOMAIN processed_requests_cache'
          /\ processed_requests_cache' # processed_requests_cache =>
               \E r \in Runs :
                  /\ pc[r] = "L127"
                  /\ pc'[r] = "L141"
                  /\ processed_requests_cache' =
                        Put(processed_requests_cache, req[r].request_id, ResultsOf(r))]_vars

\* a run ended with an error, another was abandoned between the stages, and
\* the cache is as it was created
C19_Witness ==
    \E r \in Runs, q \in Runs :
        /\ pc[r] = "done"
        /\ Errors(r) # <<>>
        /\ pc[q] = "closed"
        /\ hist[q].closed_at \in {"L113", "L116"}
        /\ processed_requests_cache = << >>

=============================================================================
